---- MODULE Spec2Model ----
(***************************************************************************)
(* Model of opensfm/exif.py: numeric primitives, the camera identity       *)
(* string, the EXIF/XMP field extractors, the calibration resolver and the *)
(* camera factory.                                                         *)
(*                                                                         *)
(* Conventions.                                                            *)
(*  - A Python float is an exact rational [num, den] in lowest terms with  *)
(*    den > 0.                                                             *)
(*  - Optional[T] is a sequence of length at most one: None is <<>> and a  *)
(*    present value v is <<v>>.                                            *)
(*  - A Python str is a sequence of one-character strings.                 *)
(*  - The outcome of a call that returns v is [val |-> v]; the outcome of  *)
(*    a call that raises is [exc |-> name].                                *)
(***************************************************************************)
EXTENDS Integers, Sequences, FiniteSets, TLC

VARIABLES
    raw_calibrations,   \* the hard-coded calibration table shared by all calls
    op,                 \* the operation being called
    args,               \* the inputs of the calls
    ret,                \* the outcomes of the calls made so far
    resolved            \* the calibration resolved by the last call, if any

vars == <<raw_calibrations, op, args, ret, resolved>>

(***************************************************************************)
(* Bounds of the explored inputs.                                          *)
(***************************************************************************)
MaxNum == 3
MaxDen == 2

\* Decimal digits of a float's text that are generated; six characters of
\* text never reach beyond the fifth decimal.
ReprDigits == 6

\* The altitude ceiling in metres (maximum_altitude).
AltitudeCeiling == 10000

(***************************************************************************)
(* Optional values and call outcomes.                                      *)
(***************************************************************************)
None == <<>>

Some(v) == <<v>>

IsNone(o) == Len(o) = 0

Get(o) == o[1]

Return(v) == [val |-> v]

Raise(e) == [exc |-> e]

Raised(r) == "exc" \in DOMAIN r

\* The rest of a function body after a call: the call's exception
\* propagates, its value goes to the rest.
Then(r, rest(_)) == IF Raised(r) THEN r ELSE rest(r.val)

\* A local variable holding v in the rest of a function body.
With(v, rest(_)) == rest(v)

Returned(r) == "val" \in DOMAIN r

(***************************************************************************)
(* Floats as exact rationals.                                              *)
(***************************************************************************)
Abs(n) == IF n < 0 THEN -n ELSE n

RECURSIVE GCD(_, _)
GCD(a, b) == IF b = 0 THEN a ELSE GCD(b, a % b)

Rat(n, d) ==
    LET g == GCD(Abs(n), Abs(d))
        s == IF d < 0 THEN -1 ELSE 1
    IN  [num |-> (s * n) \div g, den |-> (s * d) \div g]

Float(n) == [num |-> n, den |-> 1]

RatAdd(a, b) == Rat(a.num * b.den + b.num * a.den, a.den * b.den)

RatMul(a, b) == Rat(a.num * b.num, a.den * b.den)

RatDiv(a, b) == Rat(a.num * b.den, a.den * b.num)

RatNeg(a) == [num |-> -a.num, den |-> a.den]

RatLess(a, b) == a.num * b.den < b.num * a.den

Truthy(a) == a.num # 0

(***************************************************************************)
(* Strings as sequences of characters.                                     *)
(***************************************************************************)
IsPrefixAt(s, t, i) ==
    /\ i + Len(t) - 1 <= Len(s)
    /\ \A k \in 1..Len(t) : s[i + k - 1] = t[k]

\* Python's `t in s` for strings: t occurs in s as a contiguous substring.
IsSubstring(t, s) == \E i \in 1..(Len(s) + 1) : IsPrefixAt(s, t, i)

UpperAlpha ==
    <<"A", "B", "C", "D", "E", "F", "G", "H", "I", "J", "K", "L", "M",
      "N", "O", "P", "Q", "R", "S", "T", "U", "V", "W", "X", "Y", "Z">>

LowerAlpha ==
    <<"a", "b", "c", "d", "e", "f", "g", "h", "i", "j", "k", "l", "m",
      "n", "o", "p", "q", "r", "s", "t", "u", "v", "w", "x", "y", "z">>

LowerChar(c) ==
    IF \E i \in 1..26 : UpperAlpha[i] = c
    THEN LowerAlpha[CHOOSE i \in 1..26 : UpperAlpha[i] = c]
    ELSE c

\* str.lower()
lower(s) == [i \in 1..Len(s) |-> LowerChar(s[i])]

IsSpace(c) == c = " "

\* str.strip(): drop leading and trailing whitespace.
strip(s) ==
    IF \A i \in 1..Len(s) : IsSpace(s[i])
    THEN <<>>
    ELSE LET first == CHOOSE i \in 1..Len(s) :
                        ~IsSpace(s[i]) /\ \A j \in 1..(i - 1) : IsSpace(s[j])
             last  == CHOOSE i \in 1..Len(s) :
                        ~IsSpace(s[i]) /\ \A j \in (i + 1)..Len(s) : IsSpace(s[j])
         IN  SubSeq(s, first, last)

\* str.replace(old, ""): delete the non-overlapping occurrences of old,
\* scanning left to right; an empty old deletes nothing.
RECURSIVE remove_from(_, _, _)
remove_from(s, old, i) ==
    IF i > Len(s) THEN <<>>
    ELSE IF IsPrefixAt(s, old, i)
         THEN remove_from(s, old, i + Len(old))
         ELSE <<s[i]>> \o remove_from(s, old, i + 1)

remove(s, old) == IF Len(old) = 0 THEN s ELSE remove_from(s, old, 1)

\* " ".join(parts)
RECURSIVE join(_)
join(parts) ==
    IF Len(parts) = 0 THEN <<>>
    ELSE IF Len(parts) = 1 THEN parts[1]
         ELSE parts[1] \o <<" ">> \o join(Tail(parts))

Digit(d) == <<"0", "1", "2", "3", "4", "5", "6", "7", "8", "9">>[d + 1]

RECURSIVE nat_str(_)
nat_str(n) == IF n < 10 THEN <<Digit(n)>> ELSE nat_str(n \div 10) \o <<Digit(n % 10)>>

\* str(int(n))
int_str(n) == IF n < 0 THEN <<"-">> \o nat_str(-n) ELSE nat_str(n)

\* The digits of the fraction rem/den, at most `left` of them, stopping when
\* the expansion terminates.
RECURSIVE frac_digits(_, _, _)
frac_digits(rem, den, left) ==
    IF rem = 0 \/ left = 0 THEN <<>>
    ELSE <<Digit((rem * 10) \div den)>> \o frac_digits((rem * 10) % den, den, left - 1)

\* str(float(x)) to the length that a six-character prefix can see: the
\* integer part, the point and the decimal expansion (a terminating
\* expansion is printed exactly, "2.0" for a whole number).  Covers the
\* positional notation Python uses for 1e-4 <= |x| < 1e16 and for 0.
float_str(x) ==
    LET a    == Abs(x.num)
        ip   == a \div x.den
        fd   == frac_digits(a % x.den, x.den, ReprDigits)
        body == nat_str(ip) \o <<".">> \o (IF Len(fd) = 0 THEN <<"0">> ELSE fd)
    IN  IF x.num < 0 THEN <<"-">> \o body ELSE body

\* s[:n]
prefix(s, n) == SubSeq(s, 1, IF Len(s) < n THEN Len(s) ELSE n)

(***************************************************************************)
(* Module constants.                                                       *)
(***************************************************************************)
maximum_altitude == Float(AltitudeCeiling)

\* The projection type names, as strings.
perspective ==
    <<"p", "e", "r", "s", "p", "e", "c", "t", "i", "v", "e">>

brown == <<"b", "r", "o", "w", "n">>

fisheye == <<"f", "i", "s", "h", "e", "y", "e">>

fisheye_opencv ==
    <<"f", "i", "s", "h", "e", "y", "e", "_", "o", "p", "e", "n", "c", "v">>

fisheye62 == <<"f", "i", "s", "h", "e", "y", "e", "6", "2">>

fisheye624 ==
    <<"f", "i", "s", "h", "e", "y", "e", "6", "2", "4">>

radial == <<"r", "a", "d", "i", "a", "l">>

simple_radial ==
    <<"s", "i", "m", "p", "l", "e", "_", "r", "a", "d", "i", "a", "l">>

dual == <<"d", "u", "a", "l">>

spherical == <<"s", "p", "h", "e", "r", "i", "c", "a", "l">>

equirectangular ==
    <<"e", "q", "u", "i", "r", "e", "c", "t", "a", "n", "g", "u", "l", "a", "r">>

fisheye_exotic ==
    <<"f", "i", "s", "h", "e", "y", "e", "_", "e", "x", "o", "t", "i", "c">>

default_projection == perspective

(***************************************************************************)
(* eval_frac: num/den of an EXIF rational, None on a zero denominator.     *)
(***************************************************************************)
eval_frac(value) ==
    IF value.den = 0 THEN None ELSE Some(Rat(value.num, value.den))

(***************************************************************************)
(* gps_to_decimal(values, reference).                                      *)
(***************************************************************************)
gps_sign_equality(reference) ==
    IF reference = <<"N">> \/ reference = <<"E">> THEN 1 ELSE -1

gps_sign(reference) == IF IsSubstring(reference, <<"N", "E">>) THEN 1 ELSE -1

gps_to_decimal(values, reference) ==
    LET sign    == gps_sign(reference)
        degrees == eval_frac(values[1])
        minutes == eval_frac(values[2])
        seconds == eval_frac(values[3])
    IN  IF ~IsNone(degrees) /\ ~IsNone(minutes) /\ ~IsNone(seconds)
        THEN Some(RatMul(Float(sign),
                         RatAdd(RatAdd(Get(degrees),
                                       RatDiv(Get(minutes), Float(60))),
                                RatDiv(Get(seconds), Float(3600)))))
        ELSE None

(***************************************************************************)
(* The sensor-width table (opensfm.sensors.sensor_data): lowercase         *)
(* "make model" -> sensor width in millimetres.  Read-only.                *)
(***************************************************************************)
sensor_data == (<<"a", " ", "c">> :> Rat(11, 2)) @@ (<<"b">> :> Float(2))

\* dict.get(key, None)
dict_get(d, key) == IF key \in DOMAIN d THEN Some(d[key]) ELSE None

\* Truth value of an Optional[float]: None and 0.0 are false.
OptTruthy(o) == ~IsNone(o) /\ Truthy(Get(o))

(***************************************************************************)
(* compute_focal(focal_35, focal, sensor_width, sensor_string)             *)
(* returns the pair <<focal_35, focal_ratio>>.                             *)
(***************************************************************************)
focal_35_usable_or_zero(focal_35) ==
    ~IsNone(focal_35) /\ ~RatLess(Get(focal_35), Float(0))

focal_35_usable(focal_35) == ~IsNone(focal_35) /\ RatLess(Float(0), Get(focal_35))

compute_focal(focal_35, focal, sensor_width, sensor_string) ==
    IF focal_35_usable(focal_35)
    THEN <<Get(focal_35), RatDiv(Get(focal_35), Float(36))>>
    ELSE LET sw == IF ~OptTruthy(sensor_width)
                   THEN IF ~IsNone(sensor_string) /\ Len(Get(sensor_string)) > 0
                        THEN dict_get(sensor_data, Get(sensor_string))
                        ELSE None
                   ELSE sensor_width
         IN  IF OptTruthy(sw) /\ OptTruthy(focal)
             THEN LET focal_ratio == RatDiv(Get(focal), Get(sw))
                  IN  <<RatMul(Float(36), focal_ratio), focal_ratio>>
             ELSE <<Float(0), Float(0)>>

(***************************************************************************)
(* sensor_string(make, model)                                              *)
(***************************************************************************)
unknown == <<"u", "n", "k", "n", "o", "w", "n">>

sensor_string(make, model) ==
    LET m == IF make # unknown THEN remove(model, make) ELSE model
    IN  lower(strip(strip(make) \o <<" ">> \o strip(m)))

(***************************************************************************)
(* camera_id_(make, model, width, height, projection_type, focal)          *)
(***************************************************************************)
\* The fields that are joined, before the final lower().
camera_id_parts(make, model, width, height, projection_type, focal) ==
    LET m == IF make # unknown THEN remove(model, make) ELSE model
    IN  << <<"v", "2">>,
           strip(make),
           strip(m),
           int_str(width),
           int_str(height),
           projection_type,
           prefix(float_str(focal), 6) >>

\* camera_id_ with the width joined in the place of the height.
camera_id_width_twice(make, model, width, height, projection_type, focal) ==
    lower(join(camera_id_parts(make, model, width, width, projection_type, focal)))

camera_id_(make, model, width, height, projection_type, focal) ==
    lower(join(camera_id_parts(make, model, width, height, projection_type, focal)))

(***************************************************************************)
(* The hard-coded calibration table (opensfm.sensors.camera_calibration,   *)
(* element 0) as loaded: lowercase make -> {"ALL": calibration} or         *)
(* {"MODEL": {model: calibration}} or {"FOCAL": {focal in 35mm:            *)
(* calibration}}.  A calibration is a dictionary; one entry carries no     *)
(* projection_type.  The table is loaded once and every call receives the  *)
(* same object.                                                            *)
(***************************************************************************)
camera_calibration_loaded ==
    (<<"a">> :> ("ALL" :> [focal |-> Rat(3, 5), k1 |-> Rat(-1, 10), k2 |-> Float(0)]))
    @@ (<<"b">> :> ("MODEL" :>
           (<<"c">> :> [projection_type |-> brown,
                        focal_x |-> Rat(4, 5), focal_y |-> Rat(4, 5),
                        c_x |-> Float(0), c_y |-> Float(0),
                        k1 |-> Rat(-1, 5), k2 |-> Float(0), k3 |-> Float(0),
                        p1 |-> Float(0), p2 |-> Float(0)])))
    @@ (<<"g">> :> ("FOCAL" :>
           (18 :> [projection_type |-> fisheye,
                   focal |-> Rat(1, 2), k1 |-> Float(0), k2 |-> Float(0)])))
    @@ (<<"h">> :>
           (("MODEL" :>
                (<<"c">> :> [projection_type |-> perspective,
                             focal |-> Rat(7, 10), k1 |-> Float(0), k2 |-> Float(0)]))
            @@ ("FOCAL" :>
                (18 :> [projection_type |-> fisheye,
                        focal |-> Rat(9, 20), k1 |-> Float(0), k2 |-> Float(0)]))))

\* data.config["default_focal_prior"]
default_focal_prior == Rat(17, 20)

\* int(round(x)): to the nearest integer, a tie to the even one.
py_round(x) ==
    LET f == x.num \div x.den
        r == x.num - f * x.den
    IN  IF 2 * r < x.den THEN f
        ELSE IF 2 * r > x.den THEN f + 1
        ELSE IF f % 2 = 0 THEN f ELSE f + 1

(***************************************************************************)
(* hard_coded_calibration(exif).  The calibration it returns is the        *)
(* dictionary stored in the table, not a copy: hard_coded_path is the      *)
(* place in the table of that dictionary.                                  *)
(***************************************************************************)
\* hard_coded_path that always takes the per-model rule's dictionary of an
\* entry without ALL, whatever the model.
hard_coded_path_model_unchecked(table, exif) ==
    LET fmm35  == py_round(RatMul(exif.focal_ratio, Float(36)))
        make   == lower(strip(exif.make))
        model  == lower(strip(exif.model))
    IN  IF make \notin DOMAIN table THEN None
        ELSE LET models == table[make]
             IN  IF "ALL" \in DOMAIN models THEN Some(<<make, "ALL">>)
                 ELSE IF "MODEL" \in DOMAIN models
                      THEN Some(<<make, "MODEL",
                                  IF model \in DOMAIN models["MODEL"] THEN model
                                  ELSE CHOOSE k \in DOMAIN models["MODEL"] : TRUE>>)
                 ELSE IF "FOCAL" \in DOMAIN models
                      THEN IF fmm35 \notin DOMAIN models["FOCAL"] THEN None
                           ELSE Some(<<make, "FOCAL", fmm35>>)
                 ELSE None

hard_coded_path(table, exif) ==
    LET fmm35  == py_round(RatMul(exif.focal_ratio, Float(36)))
        make   == lower(strip(exif.make))
        model  == lower(strip(exif.model))
    IN  IF make \notin DOMAIN table THEN None
        ELSE LET models == table[make]
             IN  IF "ALL" \in DOMAIN models THEN Some(<<make, "ALL">>)
                 ELSE IF "MODEL" \in DOMAIN models
                      THEN IF model \notin DOMAIN models["MODEL"] THEN None
                           ELSE Some(<<make, "MODEL", model>>)
                 ELSE IF "FOCAL" \in DOMAIN models
                      THEN IF fmm35 \notin DOMAIN models["FOCAL"] THEN None
                           ELSE Some(<<make, "FOCAL", fmm35>>)
                 ELSE None

table_at(table, path) ==
    IF Len(path) = 2 THEN table[path[1]][path[2]]
    ELSE table[path[1]][path[2]][path[3]]

table_store(table, path, calib) ==
    IF Len(path) = 2 THEN [table EXCEPT ![path[1]][path[2]] = calib]
    ELSE [table EXCEPT ![path[1]][path[2]][path[3]] = calib]

hard_coded_calibration(table, exif) ==
    LET path == hard_coded_path(table, exif)
    IN  IF IsNone(path) THEN None ELSE Some(table_at(table, Get(path)))

(***************************************************************************)
(* focal_ratio_calibration, focal_xy_calibration, default_calibration      *)
(***************************************************************************)
focal_ratio_calibration(exif) ==
    IF "focal_ratio" \in DOMAIN exif /\ Truthy(exif.focal_ratio)
    THEN Some([focal |-> exif.focal_ratio,
               k1 |-> Float(0), k2 |-> Float(0), p1 |-> Float(0), p2 |-> Float(0),
               k3 |-> Float(0)])
    ELSE None

focal_xy_calibration(exif) ==
    LET focal == IF "focal_x" \in DOMAIN exif THEN Some(exif.focal_x)
                 ELSE dict_get(exif, "focal_ratio")
    IN  IF OptTruthy(focal)
        THEN Some([focal_x |-> Get(focal), focal_y |-> Get(focal),
                   c_x |-> IF "c_x" \in DOMAIN exif THEN exif.c_x ELSE Float(0),
                   c_y |-> IF "c_y" \in DOMAIN exif THEN exif.c_y ELSE Float(0),
                   k1 |-> Float(0), k2 |-> Float(0), p1 |-> Float(0), p2 |-> Float(0),
                   k3 |-> Float(0), k4 |-> Float(0), k5 |-> Float(0), k6 |-> Float(0),
                   s0 |-> Float(0), s1 |-> Float(0), s2 |-> Float(0), s3 |-> Float(0)])
        ELSE None

default_calibration ==
    [focal |-> default_focal_prior,
     focal_x |-> default_focal_prior, focal_y |-> default_focal_prior,
     c_x |-> Float(0), c_y |-> Float(0),
     k1 |-> Float(0), k2 |-> Float(0), p1 |-> Float(0), p2 |-> Float(0),
     k3 |-> Float(0), k4 |-> Float(0), k5 |-> Float(0), k6 |-> Float(0),
     s0 |-> Float(0), s1 |-> Float(0), s2 |-> Float(0), s3 |-> Float(0)]

(***************************************************************************)
(* calibration_from_metadata(metadata, data): the calibration returned and *)
(* the table after the call.  When the hard-coded dictionary is chosen and *)
(* has no projection_type, the assignment calib["projection_type"] = pt    *)
(* writes into the table's dictionary.                                     *)
(***************************************************************************)
XYFamily == {brown, fisheye_opencv, radial, simple_radial, fisheye62, fisheye624}

metadata_projection(metadata) ==
    lower(IF "projection_type" \in DOMAIN metadata
          THEN metadata.projection_type ELSE default_projection)

\* calibration_from_metadata trying the generic default before the table.
calibration_generic_first(table, metadata) ==
    LET pt      == metadata_projection(metadata)
        path    == hard_coded_path(table, metadata)
        hard    == hard_coded_calibration(table, metadata)
        generic == IF pt \in XYFamily THEN focal_xy_calibration(metadata)
                   ELSE focal_ratio_calibration(metadata)
        useHard == IsNone(generic) /\ ~IsNone(hard) /\ DOMAIN Get(hard) # {}
        chosen  == IF ~IsNone(generic) THEN Get(generic)
                   ELSE IF useHard THEN Get(hard)
                   ELSE default_calibration
        calib   == IF "projection_type" \notin DOMAIN chosen
                   THEN chosen @@ ("projection_type" :> pt)
                   ELSE chosen
    IN  [calib |-> calib,
         table |-> IF useHard THEN table_store(table, Get(path), calib) ELSE table]

calibration_from_metadata(table, metadata) ==
    LET pt      == metadata_projection(metadata)
        path    == hard_coded_path(table, metadata)
        hard    == hard_coded_calibration(table, metadata)
        useHard == ~IsNone(hard) /\ DOMAIN Get(hard) # {}
        generic == IF pt \in XYFamily THEN focal_xy_calibration(metadata)
                   ELSE focal_ratio_calibration(metadata)
        chosen  == IF useHard THEN Get(hard)
                   ELSE IF ~IsNone(generic) THEN Get(generic)
                   ELSE default_calibration
        calib   == IF "projection_type" \notin DOMAIN chosen
                   THEN chosen @@ ("projection_type" :> pt)
                   ELSE chosen
    IN  [calib |-> calib,
         table |-> IF useHard THEN table_store(table, Get(path), calib) ELSE table]

(***************************************************************************)
(* camera_from_exif_metadata(metadata, data), default calibration_func.    *)
(* A camera object is the record of the constructor's arguments with the   *)
(* id, width and height copied from the metadata.  calib[key] of a missing *)
(* key raises KeyError; focal_y / focal_x with focal_x = 0.0 raises        *)
(* ZeroDivisionError.                                                      *)
(***************************************************************************)
\* pygeometry.Camera.is_panorama
is_panorama(pt) == pt \in {spherical, equirectangular}

finish_camera(camera, metadata) ==
    Return(camera @@ [id |-> metadata.camera, width |-> metadata.width,
                      height |-> metadata.height])

\* create_perspective, create_fisheye, create_dual: the arguments are calib[k]
\* for k in keys, in this order.
create_simple(name, calib, keys, metadata) ==
    IF \E i \in 1..Len(keys) : keys[i] \notin DOMAIN calib
    THEN Raise("KeyError")
    ELSE finish_camera([projection_type |-> name,
                        parameters |-> [i \in 1..Len(keys) |-> calib[keys[i]]]],
                       metadata)

\* create_brown and the other constructors of the focal_x/focal_y family.
create_xy(name, calib, distortion, metadata) ==
    IF "focal_x" \notin DOMAIN calib \/ "focal_y" \notin DOMAIN calib
    THEN Raise("KeyError")
    ELSE IF ~Truthy(calib.focal_x)
    THEN Raise("ZeroDivisionError")
    ELSE IF \/ "c_x" \notin DOMAIN calib
            \/ "c_y" \notin DOMAIN calib
            \/ \E i \in 1..Len(distortion) : distortion[i] \notin DOMAIN calib
    THEN Raise("KeyError")
    ELSE finish_camera([projection_type |-> name,
                        focal |-> calib.focal_x,
                        aspect_ratio |-> RatDiv(calib.focal_y, calib.focal_x),
                        principal_point |-> <<calib.c_x, calib.c_y>>,
                        distortion |-> [i \in 1..Len(distortion) |-> calib[distortion[i]]]],
                       metadata)

calib_projection(calib) ==
    lower(IF "projection_type" \in DOMAIN calib
          THEN calib.projection_type ELSE default_projection)

\* A dispatch whose final branch builds a perspective camera.
unknown_projection_as_perspective(calib_pt, calib, metadata) ==
    create_simple(perspective, calib, <<"focal", "k1", "k2">>, metadata)

\* The final branch of the dispatch.
unknown_projection(calib_pt, calib, metadata) == Raise("ValueError")

create_camera(calib, metadata) ==
    LET calib_pt == calib_projection(calib)
    IN  IF calib_pt = perspective
        THEN create_simple(perspective, calib, <<"focal", "k1", "k2">>, metadata)
        ELSE IF calib_pt = brown
        THEN create_xy(brown, calib, <<"k1", "k2", "k3", "p1", "p2">>, metadata)
        ELSE IF calib_pt = fisheye
        THEN create_simple(fisheye, calib, <<"focal", "k1", "k2">>, metadata)
        ELSE IF calib_pt = fisheye_opencv
        THEN create_xy(fisheye_opencv, calib, <<"k1", "k2", "k3", "k4">>, metadata)
        ELSE IF calib_pt = fisheye62
        THEN create_xy(fisheye62, calib,
                       <<"k1", "k2", "k3", "k4", "k5", "k6", "p1", "p2">>, metadata)
        ELSE IF calib_pt = fisheye624
        THEN create_xy(fisheye624, calib,
                       <<"k1", "k2", "k3", "k4", "k5", "k6", "p1", "p2",
                         "s0", "s1", "s2", "s3">>, metadata)
        ELSE IF calib_pt = radial
        THEN create_xy(radial, calib, <<"k1", "k2">>, metadata)
        ELSE IF calib_pt = simple_radial
        THEN create_xy(simple_radial, calib, <<"k1">>, metadata)
        ELSE IF calib_pt = dual
        THEN create_simple(dual, calib, <<"transition", "focal", "k1", "k2">>, metadata)
        ELSE IF is_panorama(calib_pt)
        THEN finish_camera([projection_type |-> spherical], metadata)
        ELSE unknown_projection(calib_pt, calib, metadata)

camera_from_exif_metadata(table, metadata) ==
    LET c == calibration_from_metadata(table, metadata)
    IN  [outcome |-> create_camera(c.calib, metadata), table |-> c.table]

(***************************************************************************)
(* Parsing of numbers: float(s) and int(s) of a string.  The grammar       *)
(* covered is optional surrounding whitespace, an optional sign, decimal   *)
(* digits and, for float, one optional point; anything else is a           *)
(* ValueError (None here).                                                 *)
(***************************************************************************)
IsDigit(c) == \E d \in 0..9 : Digit(d) = c

DigitValue(c) == CHOOSE d \in 0..9 : Digit(d) = c

RECURSIVE digits_value(_)
digits_value(s) ==
    IF Len(s) = 0 THEN 0
    ELSE 10 * digits_value(SubSeq(s, 1, Len(s) - 1)) + DigitValue(s[Len(s)])

RECURSIVE power_of_ten(_)
power_of_ten(n) == IF n = 0 THEN 1 ELSE 10 * power_of_ten(n - 1)

unsigned_float(s) ==
    LET points == {i \in 1..Len(s) : s[i] = "."}
        point  == IF points = {} THEN Len(s) + 1 ELSE CHOOSE i \in points : TRUE
        whole  == SubSeq(s, 1, point - 1)
        frac   == SubSeq(s, point + 1, Len(s))
    IN  IF \/ Cardinality(points) > 1
           \/ Len(whole) + Len(frac) = 0
           \/ \E i \in 1..Len(whole) : ~IsDigit(whole[i])
           \/ \E i \in 1..Len(frac) : ~IsDigit(frac[i])
        THEN None
        ELSE Some(Rat(digits_value(whole) * power_of_ten(Len(frac)) + digits_value(frac),
                      power_of_ten(Len(frac))))

py_float(s) ==
    LET t    == strip(s)
        neg  == Len(t) > 0 /\ t[1] = "-"
        body == IF Len(t) > 0 /\ t[1] \in {"+", "-"} THEN Tail(t) ELSE t
        u    == unsigned_float(body)
    IN  IF IsNone(u) THEN None
        ELSE IF neg THEN Some(RatNeg(Get(u))) ELSE u

py_int(s) ==
    LET t    == strip(s)
        neg  == Len(t) > 0 /\ t[1] = "-"
        body == IF Len(t) > 0 /\ t[1] \in {"+", "-"} THEN Tail(t) ELSE t
    IN  IF Len(body) = 0 \/ \E i \in 1..Len(body) : ~IsDigit(body[i])
        THEN None
        ELSE Some(IF neg THEN -digits_value(body) ELSE digits_value(body))

(***************************************************************************)
(* The values of EXIF tags.  tags[name] is the tag's `values`: a string,   *)
(* or a sequence of scalars, each a Ratio, an int or a string.             *)
(***************************************************************************)
Ratio(n, d) == [type |-> "Ratio", num |-> n, den |-> d, text |-> <<>>]

IntValue(n) == [type |-> "int", num |-> n, den |-> 1, text |-> <<>>]

StrValue(s) == [type |-> "str", num |-> 0, den |-> 1, text |-> s]

\* A bytes value; utf8 tells whether it decodes as UTF-8, to the text s.
BytesValue(s, utf8) ==
    [type |-> IF utf8 THEN "bytes" ELSE "bytes, not UTF-8", num |-> 0, den |-> 1,
     text |-> s]

inch_in_mm == Rat(254, 10)

cm_in_mm == Float(10)

um_in_mm == Rat(1, 1000)

(***************************************************************************)
(* get_tag_as_float(tags, key, index): an outcome holding Optional[float]. *)
(***************************************************************************)
get_tag_as_float(tags, key, index) ==
    IF key \in DOMAIN tags
    THEN IF index + 1 > Len(tags[key]) THEN Raise("IndexError")
         ELSE LET val == tags[key][index + 1]
              IN  IF val.type = "Ratio" THEN Return(eval_frac(val))
                  ELSE IF val.type = "int" THEN Return(Some(Float(val.num)))
                  ELSE With(py_float(val.text), LAMBDA number :
                            IF IsNone(number) THEN Raise("ValueError")
                            ELSE Return(number))
    ELSE Return(None)

\* Variant: the Image ImageWidth/ImageLength pair is used whenever both tags
\* exist, whatever the use_exif_size flag.
extract_image_size_image_pair_unflagged(image) ==
    IF /\ image.use_exif_size
       /\ "EXIF ExifImageWidth" \in DOMAIN image.tags
       /\ "EXIF ExifImageLength" \in DOMAIN image.tags
    THEN <<image.tags["EXIF ExifImageWidth"][1], image.tags["EXIF ExifImageLength"][1]>>
    ELSE IF /\ "Image ImageWidth" \in DOMAIN image.tags
            /\ "Image ImageLength" \in DOMAIN image.tags
    THEN <<image.tags["Image ImageWidth"][1], image.tags["Image ImageLength"][1]>>
    ELSE <<image.loader_size[2], image.loader_size[1]>>

(***************************************************************************)
(* EXIF.extract_image_size(): <<width, height>>.                           *)
(***************************************************************************)
extract_image_size(image) ==
    IF /\ image.use_exif_size
       /\ "EXIF ExifImageWidth" \in DOMAIN image.tags
       /\ "EXIF ExifImageLength" \in DOMAIN image.tags
    THEN <<image.tags["EXIF ExifImageWidth"][1], image.tags["EXIF ExifImageLength"][1]>>
    ELSE IF /\ image.use_exif_size
            /\ "Image ImageWidth" \in DOMAIN image.tags
            /\ "Image ImageLength" \in DOMAIN image.tags
    THEN <<image.tags["Image ImageWidth"][1], image.tags["Image ImageLength"][1]>>
    ELSE <<image.loader_size[2], image.loader_size[1]>>

(***************************************************************************)
(* EXIF._decode_make_model, extract_make, extract_model                    *)
(***************************************************************************)
decode_make_model(value) ==
    IF value.type = "bytes, not UTF-8" THEN unknown ELSE value.text

extract_make(image) ==
    decode_make_model(
        IF "EXIF LensMake" \in DOMAIN image.tags THEN image.tags["EXIF LensMake"]
        ELSE IF "Image Make" \in DOMAIN image.tags THEN image.tags["Image Make"]
        ELSE StrValue(unknown))

extract_model(image) ==
    decode_make_model(
        IF "EXIF LensModel" \in DOMAIN image.tags THEN image.tags["EXIF LensModel"]
        ELSE IF "Image Model" \in DOMAIN image.tags THEN image.tags["Image Model"]
        ELSE StrValue(unknown))

(***************************************************************************)
(* get_gpano_from_xmp, EXIF.extract_projection_type                        *)
(***************************************************************************)
\* The key "GPano:ProjectionType" of an XMP description.
GPanoProjectionType == "GPano:ProjectionType"

\* The keys of the modelled XMP descriptions that contain "GPano".
HasGPanoKey(description) == GPanoProjectionType \in DOMAIN description

get_gpano_from_xmp(xmp) ==
    IF \E i \in 1..Len(xmp) : HasGPanoKey(xmp[i])
    THEN xmp[CHOOSE i \in 1..Len(xmp) :
                 HasGPanoKey(xmp[i]) /\ \A j \in 1..(i - 1) : ~HasGPanoKey(xmp[j])]
    ELSE <<>>

extract_projection_type(image) ==
    LET gpano == get_gpano_from_xmp(image.xmp)
    IN  IF GPanoProjectionType \in DOMAIN gpano THEN gpano[GPanoProjectionType]
        ELSE perspective

(***************************************************************************)
(* EXIF.get_mm_per_unit, extract_sensor_width, extract_focal               *)
(***************************************************************************)
get_mm_per_unit(resolution_unit) ==
    IF resolution_unit = 2 THEN Some(inch_in_mm)
    ELSE IF resolution_unit = 3 THEN Some(cm_in_mm)
    ELSE IF resolution_unit = 4 THEN Some(Float(1))
    ELSE IF resolution_unit = 5 THEN Some(um_in_mm)
    ELSE None

\* An outcome holding Optional[float].
extract_sensor_width(image) ==
    IF \/ "EXIF FocalPlaneResolutionUnit" \notin DOMAIN image.tags
       \/ "EXIF FocalPlaneXResolution" \notin DOMAIN image.tags
    THEN Return(None)
    ELSE With(get_mm_per_unit(image.tags["EXIF FocalPlaneResolutionUnit"][1]),
              LAMBDA mm_per_unit :
         IF ~OptTruthy(mm_per_unit) THEN Return(None)
         ELSE Then(get_tag_as_float(image.tags, "EXIF FocalPlaneXResolution", 0),
                   LAMBDA x :
              IF IsNone(x) THEN Return(None)
              ELSE Then(IF RatLess(Float(0), Get(x)) THEN Return(x)
                        ELSE get_tag_as_float(image.tags, "EXIF FocalPlaneYResolution", 0),
                        LAMBDA pixels_per_unit :
                   IF IsNone(pixels_per_unit) \/ ~RatLess(Float(0), Get(pixels_per_unit))
                   THEN Return(None)
                   ELSE Return(Some(RatMul(RatMul(Float(extract_image_size(image)[1]),
                                                  RatDiv(Float(1), Get(pixels_per_unit))),
                                           Get(mm_per_unit)))))))

\* An outcome holding <<focal_35, focal_ratio>>.
extract_focal(image) ==
    Then(get_tag_as_float(image.tags, "EXIF FocalLengthIn35mmFilm", 0), LAMBDA f35 :
    Then(get_tag_as_float(image.tags, "EXIF FocalLength", 0), LAMBDA f :
    Then(extract_sensor_width(image), LAMBDA sw :
    Return(compute_focal(f35, f, sw,
                         Some(sensor_string(extract_make(image),
                                            extract_model(image))))))))

(***************************************************************************)
(* EXIF.extract_orientation                                                *)
(***************************************************************************)
extract_orientation(image) ==
    IF "Image Orientation" \in DOMAIN image.tags
    THEN LET value == image.tags["Image Orientation"][1]
         IN  IF value.type = "int" /\ value.num # 0 THEN value.num ELSE 1
    ELSE 1

(***************************************************************************)
(* Geolocation: EXIF.extract_ref_lon_lat, extract_dji_lon_lat,             *)
(* extract_dji_altitude, has_xmp, has_dji_latlon, has_dji_altitude,        *)
(* extract_lon_lat, extract_altitude, extract_dop, extract_geo             *)
(***************************************************************************)
\* s[i:] and s[i:j]
slice_from(s, i) == SubSeq(s, i + 1, Len(s))

slice(s, i, j) == SubSeq(s, i + 1, IF Len(s) < j THEN Len(s) ELSE j)

\* <<reflon, reflat>>
extract_ref_lon_lat(image) ==
    << IF "GPS GPSLongitudeRef" \in DOMAIN image.tags
       THEN image.tags["GPS GPSLongitudeRef"] ELSE <<"E">>,
       IF "GPS GPSLatitudeRef" \in DOMAIN image.tags
       THEN image.tags["GPS GPSLatitudeRef"] ELSE <<"N">> >>

has_xmp(image) == Len(image.xmp) > 0

has_dji_latlon(image) ==
    /\ has_xmp(image)
    /\ "@drone-dji:Latitude" \in DOMAIN image.xmp[1]
    /\ "@drone-dji:Longitude" \in DOMAIN image.xmp[1]

has_dji_altitude(image) ==
    has_xmp(image) /\ "@drone-dji:AbsoluteAltitude" \in DOMAIN image.xmp[1]

\* A signed drone coordinate: float(text[1:]), negated unless text[0] is "+".
\* An outcome holding an Optional[float].
dji_number(text) ==
    With(py_float(slice_from(text, 1)), LAMBDA number :
         IF IsNone(number) THEN Raise("ValueError")
         ELSE Return(IF text[1] = "+" THEN number ELSE Some(RatNeg(Get(number)))))

\* An outcome holding <<lon, lat>>, each an Optional[float].
extract_dji_lon_lat(image) ==
    Then(dji_number(image.xmp[1]["@drone-dji:Longitude"]), LAMBDA lon_number :
    Then(dji_number(image.xmp[1]["@drone-dji:Latitude"]), LAMBDA lat_number :
    Return(<<lon_number, lat_number>>)))

\* An outcome holding a float.
extract_dji_altitude(image) ==
    With(py_float(image.xmp[1]["@drone-dji:AbsoluteAltitude"]), LAMBDA altitude :
         IF IsNone(altitude) THEN Raise("ValueError") ELSE Return(Get(altitude)))

\* An outcome holding <<lon, lat>>, each an Optional[float].
extract_lon_lat(image) ==
    IF has_dji_latlon(image) THEN extract_dji_lon_lat(image)
    ELSE IF "GPS GPSLatitude" \in DOMAIN image.tags
    THEN LET ref == extract_ref_lon_lat(image)
         IN  IF Len(image.tags["GPS GPSLatitude"]) < 3 THEN Raise("IndexError")
             ELSE IF "GPS GPSLongitude" \notin DOMAIN image.tags THEN Raise("KeyError")
             ELSE IF Len(image.tags["GPS GPSLongitude"]) < 3 THEN Raise("IndexError")
             ELSE Return(<< gps_to_decimal(image.tags["GPS GPSLongitude"], ref[1]),
                            gps_to_decimal(image.tags["GPS GPSLatitude"], ref[2]) >>)
    ELSE Return(<<None, None>>)

\* extract_altitude without the negation the altitude reference asks for.
extract_altitude_ref_ignored(image) ==
    IF has_dji_altitude(image)
    THEN Then(extract_dji_altitude(image), LAMBDA altitude : Return(Some(altitude)))
    ELSE IF "GPS GPSAltitude" \in DOMAIN image.tags
    THEN With(image.tags["GPS GPSAltitude"][1], LAMBDA alt_value :
              Return(IF alt_value.type = "Ratio" THEN eval_frac(alt_value)
                     ELSE IF alt_value.type = "int" THEN Some(Float(alt_value.num))
                     ELSE None))
    ELSE Return(None)

\* An outcome holding an Optional[float].
extract_altitude(image) ==
    IF has_dji_altitude(image)
    THEN Then(extract_dji_altitude(image), LAMBDA altitude : Return(Some(altitude)))
    ELSE IF "GPS GPSAltitude" \in DOMAIN image.tags
    THEN With(image.tags["GPS GPSAltitude"][1], LAMBDA alt_value :
         With(IF alt_value.type = "Ratio" THEN eval_frac(alt_value)
              ELSE IF alt_value.type = "int" THEN Some(Float(alt_value.num))
              ELSE None,
              LAMBDA altitude :
              IF /\ "GPS GPSAltitudeRef" \in DOMAIN image.tags
                 /\ image.tags["GPS GPSAltitudeRef"][1] = IntValue(1)
                 /\ ~IsNone(altitude)
              THEN Return(Some(RatNeg(Get(altitude))))
              ELSE Return(altitude)))
    ELSE Return(None)

\* An outcome holding an Optional[float].
extract_dop(image) ==
    IF "GPS GPSDOP" \in DOMAIN image.tags
    THEN IF image.tags["GPS GPSDOP"][1].type # "Ratio" THEN Raise("AttributeError")
         ELSE Return(eval_frac(image.tags["GPS GPSDOP"][1]))
    ELSE Return(None)

RatMin(a, b) == IF RatLess(b, a) THEN b ELSE a

\* The dictionary without the ceiling on the altitude.
geo_dict_unclamped(altitude, dop, lon, lat) ==
    (IF ~IsNone(lon) /\ ~IsNone(lat)
     THEN [latitude |-> Get(lat), longitude |-> Get(lon)] ELSE <<>>)
    @@ (IF ~IsNone(altitude) THEN [altitude |-> Get(altitude)] ELSE <<>>)
    @@ (IF ~IsNone(dop) THEN [dop |-> Get(dop)] ELSE <<>>)

\* The dictionary with altitude and dop nested under the latitude/longitude
\* test.
geo_dict_nested(altitude, dop, lon, lat) ==
    IF ~IsNone(lon) /\ ~IsNone(lat)
    THEN [latitude |-> Get(lat), longitude |-> Get(lon)]
         @@ (IF ~IsNone(altitude)
             THEN [altitude |-> RatMin(maximum_altitude, Get(altitude))] ELSE <<>>)
         @@ (IF ~IsNone(dop) THEN [dop |-> Get(dop)] ELSE <<>>)
    ELSE <<>>

\* The dictionary extract_geo builds from the three resolved values.
geo_dict(altitude, dop, lon, lat) ==
    (IF ~IsNone(lon) /\ ~IsNone(lat)
     THEN [latitude |-> Get(lat), longitude |-> Get(lon)] ELSE <<>>)
    @@ (IF ~IsNone(altitude)
        THEN [altitude |-> RatMin(maximum_altitude, Get(altitude))] ELSE <<>>)
    @@ (IF ~IsNone(dop) THEN [dop |-> Get(dop)] ELSE <<>>)

\* An outcome holding the gps dictionary.
extract_geo(image) ==
    Then(extract_altitude(image), LAMBDA altitude :
    Then(extract_dop(image), LAMBDA dop :
    Then(extract_lon_lat(image), LAMBDA lon_lat :
    Return(geo_dict(altitude, dop, lon_lat[1], lon_lat[2])))))

(***************************************************************************)
(* EXIF.extract_capture_time.  A date or datetime tag is the record        *)
(* [ok, epoch]: ok tells whether strptime accepts its text, epoch is the   *)
(* number of seconds from 1970-01-01 00:00:00 to the time it denotes.      *)
(***************************************************************************)
\* int(x) of a float: truncation towards zero.
py_trunc(x) == IF x.num < 0 THEN -((-x.num) \div x.den) ELSE x.num \div x.den

time_strings ==
    << <<"EXIF DateTimeOriginal", "EXIF SubSecTimeOriginal", "EXIF Tag 0x9011">>,
       <<"EXIF DateTimeDigitized", "EXIF SubSecTimeDigitized", "EXIF Tag 0x9012">>,
       <<"Image DateTime", "Image SubSecTime", "Image Tag 0x9010">> >>

\* except (TypeError, ValueError): the fall back to the DateTime tags.
caught(r) ==
    IF r = Raise("ValueError") \/ r = Raise("TypeError") THEN Return(None) ELSE r

\* strptime of the GPS date with the time of day, less the epoch.
gps_timestamp(date, hours, minutes, seconds) ==
    IF /\ date.ok
       /\ hours \in 0..23
       /\ minutes \in 0..59
       /\ ~RatLess(seconds, Float(0))
       /\ RatLess(seconds, Float(60))
    THEN Return(Some(RatAdd(Float(date.epoch + 3600 * hours + 60 * minutes), seconds)))
    ELSE Raise("ValueError")

\* The GPS date and time stamp: Return(Some(t)) when they parse, Return(None)
\* when a TypeError or ValueError is caught, an exception otherwise.
gps_capture_time(image) ==
    caught(
    Then(get_tag_as_float(image.tags, "GPS GPSTimeStamp", 0), LAMBDA hours_f :
    Then(get_tag_as_float(image.tags, "GPS GPSTimeStamp", 1), LAMBDA minutes_f :
    IF IsNone(hours_f) \/ IsNone(minutes_f) THEN Raise("TypeError")
    ELSE Then(get_tag_as_float(image.tags, "GPS GPSTimeStamp", 2), LAMBDA seconds :
         IF IsNone(seconds) THEN Raise("TypeError")
         ELSE gps_timestamp(image.tags["GPS GPSDate"], py_trunc(Get(hours_f)),
                            py_trunc(Get(minutes_f)), Get(seconds))))))

\* The text "<date_time>.<subsec_time>" parses when the datetime does and the
\* sub-second text is one to six digits.
subsec_ok(subsec_time) ==
    /\ Len(subsec_time) \in 1..6
    /\ \A i \in 1..Len(subsec_time) : IsDigit(subsec_time[i])

\* timedelta(hours=-int(...), minutes=int(...)) in seconds; 0 when an int()
\* raises the ValueError that is caught.
offset_seconds(hours, minutes) ==
    IF IsNone(hours) \/ IsNone(minutes) THEN 0
    ELSE 60 * Get(minutes) - 3600 * Get(hours)

\* The time of one (datetime, sub-second, offset) triple; None when the
\* datetime tag is absent or does not parse.
tag_capture_time(image, triple) ==
    IF triple[1] \notin DOMAIN image.tags THEN None
    ELSE With(image.tags[triple[1]], LAMBDA date_time :
         With(IF triple[2] \in DOMAIN image.tags THEN image.tags[triple[2]] ELSE <<"0">>,
              LAMBDA subsec_time :
         IF ~(date_time.ok /\ subsec_ok(subsec_time)) THEN None
         ELSE Some(RatAdd(RatAdd(Float(date_time.epoch),
                                 Rat(digits_value(subsec_time),
                                     power_of_ten(Len(subsec_time)))),
                          Float(IF triple[3] \in DOMAIN image.tags
                                THEN offset_seconds(
                                         py_int(slice(image.tags[triple[3]], 0, 3)),
                                         py_int(slice(image.tags[triple[3]], 4, 6)))
                                ELSE 0)))))

\* The time of the first triple that parses, 0.0 when none does.
first_parsed(times) ==
    IF \E i \in 1..Len(times) : ~IsNone(times[i])
    THEN Get(times[CHOOSE i \in 1..Len(times) :
                       /\ ~IsNone(times[i])
                       /\ \A j \in 1..(i - 1) : IsNone(times[j])])
    ELSE Float(0)

\* An outcome holding a float.
extract_capture_time(image) ==
    Then(IF /\ "GPS GPSDate" \in DOMAIN image.tags
            /\ "GPS GPSTimeStamp" \in DOMAIN image.tags
         THEN gps_capture_time(image)
         ELSE Return(None),
         LAMBDA gps :
         IF ~IsNone(gps) THEN Return(Get(gps))
         ELSE Return(first_parsed([i \in 1..Len(time_strings) |->
                                      tag_capture_time(image, time_strings[i])])))

(***************************************************************************)
(* EXIF.extract_opk(geo): None or the omega/phi/kappa dictionary.  The     *)
(* angles are a function of the yaw/pitch/roll triple and of the position; *)
(* the dictionary is modelled by these arguments.                          *)
(***************************************************************************)
CameraYPR == <<"@Camera:Yaw", "@Camera:Pitch", "@Camera:Roll">>

GimbalYPR ==
    <<"@drone-dji:GimbalYawDegree", "@drone-dji:GimbalPitchDegree",
      "@drone-dji:GimbalRollDegree">>

has_triple(description, keys) == \A i \in 1..3 : keys[i] \in DOMAIN description

\* The three values converted by float(); None when one conversion raises
\* the ValueError that extract_opk catches.
float_triple(description, keys) ==
    With([i \in 1..3 |-> py_float(description[keys[i]])], LAMBDA numbers :
         IF \E i \in 1..3 : IsNone(numbers[i]) THEN None
         ELSE Some([i \in 1..3 |-> Get(numbers[i])]))

\* yaw_pitch_roll that turns to the gimbal tags when a camera tag is no number.
yaw_pitch_roll_other_source(image) ==
    IF /\ has_triple(image.xmp[1], CameraYPR)
       /\ ~IsNone(float_triple(image.xmp[1], CameraYPR))
    THEN float_triple(image.xmp[1], CameraYPR)
    ELSE IF has_triple(image.xmp[1], GimbalYPR)
    THEN With(float_triple(image.xmp[1], GimbalYPR), LAMBDA ypr :
              IF IsNone(ypr) THEN None
              ELSE Some([Get(ypr) EXCEPT ![2] = RatAdd(@, Float(90))]))
    ELSE None

\* ypr after the try block: None stands for the array of three None.
yaw_pitch_roll(image) ==
    IF has_triple(image.xmp[1], CameraYPR) THEN float_triple(image.xmp[1], CameraYPR)
    ELSE IF has_triple(image.xmp[1], GimbalYPR)
    THEN With(float_triple(image.xmp[1], GimbalYPR), LAMBDA ypr :
              IF IsNone(ypr) THEN None
              ELSE Some([Get(ypr) EXCEPT ![2] = RatAdd(@, Float(90))]))
    ELSE None

\* m == 0: the norm of the difference of the ECEF positions at latitude
\* +/- 1e-7 degrees.  The two positions are some centimetres apart at the
\* positions modelled.
north_vector_is_zero(geo) == FALSE

extract_opk(image, geo) ==
    IF /\ has_xmp(image)
       /\ DOMAIN geo # {}
       /\ "latitude" \in DOMAIN geo
       /\ "longitude" \in DOMAIN geo
    THEN With(yaw_pitch_roll(image), LAMBDA ypr :
              IF IsNone(ypr) THEN None
              ELSE IF north_vector_is_zero(geo) THEN None
              ELSE Some([ypr |-> Get(ypr),
                         latitude |-> geo.latitude,
                         longitude |-> geo.longitude,
                         altitude |-> IF "altitude" \in DOMAIN geo
                                      THEN geo.altitude ELSE Float(0)]))
    ELSE None

(***************************************************************************)
(* EXIF.extract_exif(): an outcome holding the metadata record.            *)
(***************************************************************************)
\* d["camera"] = camera_id(d)
with_camera_id(d) ==
    d @@ [camera |-> camera_id_(d.make, d.model, d.width, d.height,
                                d.projection_type, d.focal_ratio)]

\* if opk: d["opk"] = opk
with_opk(d, opk) == d @@ (IF ~IsNone(opk) THEN [opk |-> Get(opk)] ELSE <<>>)

extract_exif(image) ==
    With(extract_image_size(image), LAMBDA size :
    Then(extract_focal(image), LAMBDA focal :
    Then(extract_geo(image), LAMBDA geo :
    Then(extract_capture_time(image), LAMBDA capture_time :
    Return(with_camera_id(with_opk([make |-> extract_make(image),
                                    model |-> extract_model(image),
                                    width |-> size[1],
                                    height |-> size[2],
                                    projection_type |-> extract_projection_type(image),
                                    focal_ratio |-> focal[2],
                                    orientation |-> extract_orientation(image),
                                    capture_time |-> capture_time,
                                    gps |-> geo],
                                   extract_opk(image, geo))))))))

(***************************************************************************)
(* Inputs of the numeric primitives.                                       *)
(***************************************************************************)
Ratios == {[num |-> n, den |-> d] : n \in 0..MaxNum, d \in 0..MaxDen}

References ==
    {<<>>, <<"N">>, <<"E">>, <<"S">>, <<"W">>, <<"N", "E">>, <<"E", "N">>, <<"X">>}

Floats == {Rat(n, d) : n \in (-1)..MaxNum, d \in 1..MaxDen}

OptFloats == {None} \cup {Some(x) : x \in Floats}

SensorStrings ==
    {None, Some(<<>>), Some(<<"a", " ", "c">>), Some(<<"b">>), Some(<<"z">>)}

(***************************************************************************)
(* Specification of the numeric primitives.  The initial state holds the   *)
(* operation and the inputs of the calls to make; each step makes the next *)
(* call and appends its outcome to ret.                                    *)
(***************************************************************************)
GpsInputs ==
    {[values |-> <<d, m, s>>, reference |-> reference] :
        d \in Ratios, m \in Ratios, s \in Ratios, reference \in References}

FocalInputs ==
    {[focal_35 |-> f35, focal |-> f, sensor_width |-> sw, sensor_string |-> ss] :
        f35 \in OptFloats, f \in OptFloats, sw \in OptFloats, ss \in SensorStrings}

Pending == Len(ret) < Len(args)

NextArg == args[Len(ret) + 1]

InitPrim ==
    /\ raw_calibrations = camera_calibration_loaded
    /\ ret = <<>>
    /\ resolved = None
    /\ \/ op = "gps_to_decimal" /\ args \in {<<a>> : a \in GpsInputs}
       \/ op = "compute_focal" /\ args \in {<<a>> : a \in FocalInputs}

GpsToDecimal ==
    /\ op = "gps_to_decimal"
    /\ Pending
    /\ ret' = Append(ret, Return(gps_to_decimal(NextArg.values, NextArg.reference)))
    /\ UNCHANGED <<raw_calibrations, op, args, resolved>>

ComputeFocal ==
    /\ op = "compute_focal"
    /\ Pending
    /\ ret' = Append(ret, Return(compute_focal(NextArg.focal_35, NextArg.focal,
                                               NextArg.sensor_width,
                                               NextArg.sensor_string)))
    /\ UNCHANGED <<raw_calibrations, op, args, resolved>>

NextPrim == GpsToDecimal \/ ComputeFocal

SpecPrim == InitPrim /\ [][NextPrim]_vars

(***************************************************************************)
(* Properties of the numeric primitives.                                   *)
(***************************************************************************)
Called(o) == op = o /\ Len(ret) = 1

\* The magnitude degrees + minutes/60 + seconds/3600 of three rationals with
\* non-zero denominators, as numerator and denominator.
MagnitudeNum(v) ==
    3600 * v[1].num * v[2].den * v[3].den
    + 60 * v[2].num * v[1].den * v[3].den
    + v[3].num * v[1].den * v[2].den

MagnitudeDen(v) == 3600 * v[1].den * v[2].den * v[3].den

AllDefined(v) == v[1].den # 0 /\ v[2].den # 0 /\ v[3].den # 0

\* The call returned the float signum * magnitude(v).
IsSignedMagnitude(r, signum, v) ==
    /\ ~IsNone(r)
    /\ Get(r).num * MagnitudeDen(v) = signum * MagnitudeNum(v) * Get(r).den

\* C1 (as stated): gps_to_decimal returns the negated magnitude when the
\* reference is "S" or "W" and the positive magnitude for "N", "E" and any
\* other string.
C1_SouthWestOnlyNegate ==
    Called("gps_to_decimal") /\ AllDefined(args[1].values) =>
        IsSignedMagnitude(ret[1].val,
                          IF args[1].reference \in {<<"S">>, <<"W">>} THEN -1 ELSE 1,
                          args[1].values)

\* C1 (amended): when the three rationals evaluate, gps_to_decimal returns the
\* positive magnitude degrees + minutes/60 + seconds/3600 when the reference
\* is a substring of "NE" ("", "N", "E" or "NE") and the negated magnitude for
\* every other reference string ("S", "W" and any other); when a rational has
\* a zero denominator it returns None.
C1_SignRule ==
    Called("gps_to_decimal") =>
        IF AllDefined(args[1].values)
        THEN IsSignedMagnitude(ret[1].val,
                               IF args[1].reference \in {<<>>, <<"N">>, <<"E">>, <<"N", "E">>}
                               THEN 1 ELSE -1,
                               args[1].values)
        ELSE ret[1].val = None

\* C1 witness: a reference that is neither of N, E, S, W, with a non-zero
\* magnitude, gave a negative result.
C1_Witness ==
    /\ Called("gps_to_decimal")
    /\ args[1].reference = <<"X">>
    /\ AllDefined(args[1].values)
    /\ MagnitudeNum(args[1].values) > 0
    /\ Get(ret[1].val).num < 0

\* The sensor width compute_focal works with when focal_35 is not usable: the
\* one given directly (a non-zero number), else the table's entry for the
\* sensor string.
ResolvedWidth(a) ==
    IF a.sensor_width # None /\ Get(a.sensor_width).num # 0
    THEN a.sensor_width
    ELSE IF a.sensor_string # None /\ Get(a.sensor_string) \in DOMAIN sensor_data
         THEN Some(sensor_data[Get(a.sensor_string)])
         ELSE None

\* x = y / z for rationals, z non-zero.
IsQuotient(x, y, z) == x.num * y.den * z.num = y.num * z.den * x.den

\* C2: compute_focal returns focal_ratio = focal_35/36 with focal_35 unchanged
\* when focal_35 is present and > 0; otherwise focal_ratio = focal/sensor_width
\* and focal_35 = 36*focal_ratio when a focal length and a sensor width (given
\* directly, or looked up in the sensor table by the sensor string when not
\* given) are both available; otherwise both outputs are 0.
C2_ComputeFocal ==
    Called("compute_focal") =>
        LET a  == args[1]
            r  == ret[1].val
            sw == ResolvedWidth(a)
        IN  IF a.focal_35 # None /\ Get(a.focal_35).num > 0
            THEN r[1] = Get(a.focal_35) /\ IsQuotient(r[2], r[1], Float(36))
            ELSE IF a.focal # None /\ sw # None
                 THEN /\ IsQuotient(r[2], Get(a.focal), Get(sw))
                      /\ IsQuotient(r[2], r[1], Float(36))
                 ELSE r = <<Float(0), Float(0)>>

\* C2 witness: focal_35 is absent, no sensor width is given, the sensor string
\* is in the table, and the ratio returned is focal over the table's width.
C2_Witness ==
    /\ Called("compute_focal")
    /\ args[1].focal_35 = None
    /\ args[1].sensor_width = None
    /\ args[1].sensor_string = Some(<<"a", " ", "c">>)
    /\ args[1].focal = Some(Float(2))
    /\ ret[1].val = <<Rat(144, 11), Rat(4, 11)>>

(***************************************************************************)
(* Specification of the camera identity: the initial state holds two input *)
(* tuples that differ in at most one input; each step computes the         *)
(* identity of the next one.                                               *)
(***************************************************************************)
Makes == {<<"a">>, <<"A">>, <<"a", " ">>, <<"a", " ", "b">>, unknown}

Models == {<<"a", " ", "b", " ", "c">>, <<"b", " ", "c">>, <<"c">>, unknown \o <<"c">>}

Widths == {9, 10}

Heights == {7, 10}

IdProjections == {perspective, brown, <<"B">> \o Tail(brown)}

IdFocals == {Rat(8, 11), Rat(72727, 100000), Rat(1, 2), Float(2)}

IdInputs ==
    [make : Makes, model : Models, width : Widths, height : Heights,
     projection_type : IdProjections, focal : IdFocals]

IdFields == {"make", "model", "width", "height", "projection_type", "focal"}

DifferingInputs(t, u) == {f \in IdFields : t[f] # u[f]}

InitId ==
    /\ raw_calibrations = camera_calibration_loaded
    /\ ret = <<>>
    /\ resolved = None
    /\ op = "camera_id_"
    /\ args \in {p \in IdInputs \X IdInputs :
                    Cardinality(DifferingInputs(p[1], p[2])) <= 1}

CameraId ==
    /\ op = "camera_id_"
    /\ Pending
    /\ ret' = Append(ret, Return(camera_id_(NextArg.make, NextArg.model, NextArg.width,
                                            NextArg.height, NextArg.projection_type,
                                            NextArg.focal)))
    /\ UNCHANGED <<raw_calibrations, op, args, resolved>>

NextId == CameraId

SpecId == InitId /\ [][NextId]_vars

(***************************************************************************)
(* Properties of the camera identity.                                      *)
(***************************************************************************)
BothIds == op = "camera_id_" /\ Len(ret) = 2

\* The six fields of an input tuple as the identity string shows them.
ShownFields(t) ==
    << lower(strip(t.make)),
       lower(strip(IF t.make = unknown THEN t.model ELSE remove(t.model, t.make))),
       t.width,
       t.height,
       lower(t.projection_type),
       prefix(float_str(t.focal), 6) >>

DifferingShown(t, u) == {i \in 1..6 : ShownFields(t)[i] # ShownFields(u)[i]}

\* C3 (as stated): two input tuples that differ in exactly one input, other
\* than two focal ratios whose text agrees on the first 6 characters, have
\* different identity strings; equal tuples have the identical string.
C3_InjectiveOnInputs ==
    BothIds =>
        /\ args[1] = args[2] => ret[1] = ret[2]
        /\ ( /\ Cardinality(DifferingInputs(args[1], args[2])) = 1
             /\ ~ ( /\ args[1].focal # args[2].focal
                    /\ prefix(float_str(args[1].focal), 6)
                         = prefix(float_str(args[2].focal), 6) ) )
           => ret[1] # ret[2]

\* C3 (amended): camera_id is injective on the fields as it shows them (make
\* trimmed and lowercased; model with the make substring removed, trimmed and
\* lowercased; integer width; integer height; lowercased projection type;
\* first 6 characters of the focal text): two tuples whose shown fields
\* differ in exactly one field have different identity strings, and two
\* tuples whose shown fields all agree have the identical string.
C3_InjectiveOnShownFields ==
    BothIds =>
        /\ Cardinality(DifferingShown(args[1], args[2])) = 1 => ret[1] # ret[2]
        /\ Cardinality(DifferingShown(args[1], args[2])) = 0 => ret[1] = ret[2]

\* C3 witness: two tuples that differ only in the height, with both
\* identities computed and different.
C3_Witness ==
    /\ BothIds
    /\ DifferingInputs(args[1], args[2]) = {"height"}
    /\ DifferingShown(args[1], args[2]) = {4}
    /\ ret[1] # ret[2]

(***************************************************************************)
(* Specification of the calibration resolver and the camera factory: any   *)
(* sequence of calls, over different images, against the one table.        *)
(* Request is a caller starting a call; the other actions are the calls.   *)
(***************************************************************************)
MakeModels ==
    { <<<<"a">>, <<"c">>>>, <<<<" ", "A">>, <<"c">>>>, <<<<"b">>, <<"c">>>>,
      <<<<"b">>, <<"d">>>>, <<<<"g">>, <<"c">>>>, <<<<"z">>, <<"c">>>>,
      <<<<"h">>, <<"d">>>> }

FocalRatios == {Float(0), Rat(1, 2)}

MetadataProjections ==
    {perspective, brown, fisheye, fisheye_opencv, fisheye62, fisheye624, radial,
     simple_radial, dual, spherical, equirectangular, fisheye_exotic,
     <<"B">> \o Tail(brown)}

\* A metadata record as extract_exif builds it; projection is None for a
\* record without the projection_type key.
Metadata(mm, fr, projection) ==
    LET pt == IF IsNone(projection) THEN default_projection ELSE Get(projection)
        m  == [make |-> mm[1], model |-> mm[2], focal_ratio |-> fr,
               width |-> 9, height |-> 7,
               camera |-> camera_id_(mm[1], mm[2], 9, 7, pt, fr)]
    IN  IF IsNone(projection) THEN m ELSE m @@ ("projection_type" :> pt)

MetadataInputs ==
    LET plain == {Metadata(mm, fr, projection) :
                     mm \in MakeModels, fr \in FocalRatios,
                     projection \in {None} \cup {Some(pt) : pt \in MetadataProjections}}
    IN  plain \cup {m @@ ("focal_x" :> Rat(3, 4)) @@ ("c_x" :> Rat(1, 10)) :
                        m \in {n \in plain : n.make = <<"z">>}}

FocalInputsOfRequests == {a \in FocalInputs : a.focal_35 = None /\ a.sensor_width = None}

Init ==
    /\ raw_calibrations = camera_calibration_loaded
    /\ op = "load"
    /\ args = <<>>
    /\ ret = <<>>
    /\ resolved = None

Request ==
    /\ ~Pending
    /\ \/ /\ op' \in {"hard_coded_calibration", "calibration_from_metadata",
                      "camera_from_exif_metadata"}
          /\ args' \in {<<m>> : m \in MetadataInputs}
       \/ /\ op' = "compute_focal"
          /\ args' \in {<<a>> : a \in FocalInputsOfRequests}
    /\ ret' = <<>>
    /\ resolved' = None
    /\ UNCHANGED raw_calibrations

HardCodedCalibration ==
    /\ op = "hard_coded_calibration"
    /\ Pending
    /\ ret' = Append(ret, Return(hard_coded_calibration(raw_calibrations, NextArg)))
    /\ UNCHANGED <<raw_calibrations, op, args, resolved>>

CalibrationFromMetadata ==
    /\ op = "calibration_from_metadata"
    /\ Pending
    /\ LET c == calibration_from_metadata(raw_calibrations, NextArg)
       IN  /\ ret' = Append(ret, Return(c.calib))
           /\ resolved' = Some(c.calib)
           /\ raw_calibrations' = c.table
    /\ UNCHANGED <<op, args>>

CameraFromExifMetadata ==
    /\ op = "camera_from_exif_metadata"
    /\ Pending
    /\ LET c == calibration_from_metadata(raw_calibrations, NextArg)
           r == camera_from_exif_metadata(raw_calibrations, NextArg)
       IN  /\ ret' = Append(ret, r.outcome)
           /\ resolved' = Some(c.calib)
           /\ raw_calibrations' = r.table
    /\ UNCHANGED <<op, args>>

Next ==
    \/ Request
    \/ HardCodedCalibration
    \/ CalibrationFromMetadata
    \/ CameraFromExifMetadata
    \/ ComputeFocal

Spec == Init /\ [][Next]_vars

(***************************************************************************)
(* Properties of the calibration resolver and the camera factory.          *)
(***************************************************************************)
\* C4: in any sequence of calibration_from_metadata / camera_from_exif_metadata
\* calls, the outcome for a metadata record equals the outcome of the same
\* call made first after the table is loaded.
C4_HistoryIndependent ==
    /\ Called("calibration_from_metadata") =>
          ret[1] = Return(calibration_from_metadata(camera_calibration_loaded,
                                                    args[1]).calib)
    /\ Called("camera_from_exif_metadata") =>
          ret[1] = camera_from_exif_metadata(camera_calibration_loaded, args[1]).outcome

\* C5: after any sequence of calls every entry of the hard-coded calibration
\* table is identical to its value at load time (the sensor-width table is
\* only ever read).
C5_TablesUnchanged == raw_calibrations = camera_calibration_loaded

NamedProjections ==
    {perspective, brown, fisheye, fisheye_opencv, fisheye62, fisheye624, radial,
     simple_radial, dual}

ResolvedProjection == calib_projection(Get(resolved))

\* C6: whenever the resolved projection type is a named one or a panorama
\* type, camera_from_exif_metadata returns a camera object, whichever strategy
\* supplied the calibration.
C6_SupportedProjectionReturns ==
    Called("camera_from_exif_metadata") =>
        ( ResolvedProjection \in NamedProjections \cup {spherical, equirectangular}
          => Returned(ret[1]) )

\* C7: when the calibration's lowercased projection type matches none of the
\* named constructors and is not a panorama type, camera_from_exif_metadata
\* raises an error and returns no camera object.
C7_UnknownProjectionRaises ==
    Called("camera_from_exif_metadata") =>
        ( ResolvedProjection \notin NamedProjections \cup {spherical, equirectangular}
          => ret[1] = Raise("ValueError") )

\* C7 witness: the projection type "fisheye_exotic" reached the factory, which
\* raised.
C7_Witness ==
    /\ Called("camera_from_exif_metadata")
    /\ "projection_type" \in DOMAIN args[1]
    /\ args[1].projection_type = fisheye_exotic
    /\ ResolvedProjection = fisheye_exotic
    /\ Raised(ret[1])

\* The table entry of the trimmed lowercased make, the trimmed lowercased
\* model and the 35 mm focal bucket of a record.
EntryOf(exif) == raw_calibrations[lower(strip(exif.make))]

ModelKey(exif) == lower(strip(exif.model))

FocalKey(exif) == py_round(RatMul(exif.focal_ratio, Float(36)))

Parameters(calibration) ==
    [k \in DOMAIN calibration \ {"projection_type"} |-> calibration[k]]

Zeros(keys) == [k \in keys |-> Float(0)]

\* The focal the generic default of the family of pt would use: focal_x or
\* else focal_ratio for the focal_x/focal_y family, focal_ratio otherwise.
GenericFocal(metadata, pt) ==
    IF pt \in {brown, fisheye_opencv, radial, simple_radial, fisheye62, fisheye624}
       /\ "focal_x" \in DOMAIN metadata
    THEN metadata.focal_x ELSE metadata.focal_ratio

\* The generic default of the family of pt around a focal.
GenericDefault(metadata, pt, focal) ==
    IF pt \in {brown, fisheye_opencv, radial, simple_radial, fisheye62, fisheye624}
    THEN ("focal_x" :> focal) @@ ("focal_y" :> focal)
         @@ ("c_x" :> IF "c_x" \in DOMAIN metadata THEN metadata.c_x ELSE Float(0))
         @@ ("c_y" :> IF "c_y" \in DOMAIN metadata THEN metadata.c_y ELSE Float(0))
         @@ Zeros({"k1", "k2", "p1", "p2", "k3", "k4", "k5", "k6",
                   "s0", "s1", "s2", "s3"})
    ELSE ("focal" :> focal) @@ Zeros({"k1", "k2", "p1", "p2", "k3"})

ConfigurationDefault ==
    [k \in {"focal", "focal_x", "focal_y"} |-> default_focal_prior]
    @@ Zeros({"c_x", "c_y", "k1", "k2", "p1", "p2", "k3", "k4", "k5", "k6",
              "s0", "s1", "s2", "s3"})

\* C16: calibration_from_metadata returns the hard-coded calibration when
\* the lookup matches; else the generic default of the family of the
\* lowercased projection type, all distortion zero, when a non-zero focal
\* is available; else the configuration default focal prior.
C16_StrategyOrder ==
    Called("calibration_from_metadata") =>
        IF ~IsNone(hard_coded_calibration(raw_calibrations, args[1]))
        THEN ret[1].val = Get(hard_coded_calibration(raw_calibrations, args[1]))
        ELSE IF GenericFocal(args[1], metadata_projection(args[1])) # Float(0)
        THEN Parameters(ret[1].val) =
                 GenericDefault(args[1], metadata_projection(args[1]),
                                GenericFocal(args[1], metadata_projection(args[1])))
        ELSE Parameters(ret[1].val) = ConfigurationDefault

\* C16 witness: no table entry matched a "Brown" record with focal_x and a
\* principal point, and the focal_x/focal_y default was built from them.
C16_Witness ==
    /\ Called("calibration_from_metadata")
    /\ IsNone(hard_coded_calibration(raw_calibrations, args[1]))
    /\ "projection_type" \in DOMAIN args[1]
    /\ args[1].projection_type = <<"B">> \o Tail(brown)
    /\ "focal_x" \in DOMAIN args[1]
    /\ ret[1].val.focal_x = args[1].focal_x
    /\ ret[1].val.c_x = args[1].c_x

\* C18: in any sequence of calls, the calibration calibration_from_metadata
\* returns carries a projection_type: the one the chosen calibration
\* specifies (only a table calibration, as loaded, can specify one), or else
\* the lowercased projection type of the metadata record of this call,
\* "perspective" when the record has none.
C18_ProjectionOfThisCall ==
    Called("calibration_from_metadata") =>
        /\ "projection_type" \in DOMAIN ret[1].val
        /\ ret[1].val.projection_type =
               IF /\ ~IsNone(hard_coded_calibration(camera_calibration_loaded, args[1]))
                  /\ "projection_type" \in
                         DOMAIN Get(hard_coded_calibration(camera_calibration_loaded,
                                                           args[1]))
               THEN Get(hard_coded_calibration(camera_calibration_loaded,
                                               args[1])).projection_type
               ELSE metadata_projection(args[1])

(***************************************************************************)
(* Specification of the metadata extraction: the initial state holds one   *)
(* image (its tags, its XMP descriptions, the use-EXIF-size flag and the   *)
(* <<height, width>> the image-size loader returns); the step is           *)
(* extract_exif on it.                                                     *)
(***************************************************************************)
\* The dictionaries with at most the one key, valued in values.
Optional(key, values) == {<<>>} \cup {key :> v : v \in values}

Image(tags, xmp, use_exif_size) ==
    [tags |-> tags, xmp |-> xmp, use_exif_size |-> use_exif_size, loader_size |-> <<7, 9>>]

GeoXmps ==
    { <<>>,
      << <<>> >>,
      << (("@drone-dji:Latitude" :> <<"+", "1", "0", ".", "5">>) @@
          ("@drone-dji:Longitude" :> <<"-", "2", "0", ".", "2", "5">>)) >>,
      << (("@drone-dji:Latitude" :> <<"a", "b", "c">>) @@
          ("@drone-dji:Longitude" :> <<"-", "2", "0", ".", "2", "5">>)) >>,
      << (("@drone-dji:AbsoluteAltitude" :> <<"+", "2", "0", "0", "0", "0", ".", "5">>)) >>,
      << (("@drone-dji:AbsoluteAltitude" :> <<"a", "b", "c">>)) >>,
      << (("@drone-dji:Latitude" :> <<"+", "1", "0", ".", "5">>) @@
          ("@drone-dji:Longitude" :> <<"-", "2", "0", ".", "2", "5">>) @@
          ("@drone-dji:AbsoluteAltitude" :> <<"5", "0", ".", "5">>)) >> }

GeoTags ==
    { lat @@ lon @@ latref @@ lonref @@ alt @@ altref @@ dop :
        lat \in Optional("GPS GPSLatitude",
                         { <<Ratio(10, 1), Ratio(30, 1), Ratio(0, 1)>>,
                           <<Ratio(10, 1), Ratio(30, 0), Ratio(0, 1)>> }),
        lon \in Optional("GPS GPSLongitude",
                         { <<Ratio(20, 1), Ratio(15, 1), Ratio(0, 1)>> }),
        latref \in Optional("GPS GPSLatitudeRef", { <<"S">> }),
        lonref \in Optional("GPS GPSLongitudeRef", { <<"W">> }),
        alt \in Optional("GPS GPSAltitude",
                         { <<Ratio(100, 1)>>, <<Ratio(2 * AltitudeCeiling, 1)>>,
                           <<Ratio(1, 0)>>, <<IntValue(5)>>, <<StrValue(<<"x">>)>> }),
        altref \in Optional("GPS GPSAltitudeRef", { <<IntValue(1)>>, <<IntValue(0)>> }),
        dop \in Optional("GPS GPSDOP", { <<Ratio(3, 2)>>, <<Ratio(1, 0)>> }) }

\* Images that exercise the extractors other than the geolocation.
OtherTags ==
    { (("EXIF ExifImageWidth" :> <<10>>) @@
       ("EXIF ExifImageLength" :> <<8>>) @@
       ("EXIF FocalLengthIn35mmFilm" :> <<Ratio(18, 1)>>) @@
       ("EXIF LensMake" :> StrValue(<<"A">>)) @@
       ("Image Model" :> BytesValue(<<"c">>, FALSE)) @@
       ("Image Orientation" :> <<IntValue(6)>>)),
      (("EXIF ExifImageWidth" :> <<10>>) @@
       ("EXIF ExifImageLength" :> <<8>>) @@
       ("Image ImageWidth" :> <<12>>) @@
       ("Image ImageLength" :> <<6>>)),
      (("EXIF ExifImageWidth" :> <<10>>) @@
       ("Image ImageWidth" :> <<12>>) @@
       ("Image ImageLength" :> <<6>>)),
      (("Image ImageWidth" :> <<12>>) @@
       ("Image ImageLength" :> <<6>>) @@
       ("EXIF FocalLength" :> <<Ratio(4, 1)>>) @@
       ("EXIF FocalPlaneResolutionUnit" :> <<3>>) @@
       ("EXIF FocalPlaneXResolution" :> <<Ratio(0, 1)>>) @@
       ("EXIF FocalPlaneYResolution" :> <<Ratio(24, 1)>>) @@
       ("Image Make" :> StrValue(<<"a">>)) @@
       ("Image Model" :> StrValue(<<"a", " ", "c">>)) @@
       ("Image Orientation" :> <<IntValue(0)>>)),
      (("EXIF FocalLength" :> <<StrValue(<<"x">>)>>)),
      (("GPS GPSDate" :> [ok |-> TRUE, epoch |-> 86400]) @@
       ("GPS GPSTimeStamp" :> <<Ratio(1, 1), Ratio(2, 1), Ratio(7, 2)>>) @@
       ("EXIF DateTimeOriginal" :> [ok |-> TRUE, epoch |-> 90000])),
      (("GPS GPSDate" :> [ok |-> TRUE, epoch |-> 86400]) @@
       ("GPS GPSTimeStamp" :> <<Ratio(1, 1), Ratio(2, 1), Ratio(3, 0)>>) @@
       ("EXIF DateTimeOriginal" :> [ok |-> FALSE, epoch |-> 0]) @@
       ("EXIF DateTimeDigitized" :> [ok |-> TRUE, epoch |-> 90000]) @@
       ("EXIF SubSecTimeDigitized" :> <<"5">>) @@
       ("EXIF Tag 0x9012" :> <<"+", "0", "5", ":", "3", "0">>)),
      (("GPS GPSDate" :> [ok |-> TRUE, epoch |-> 86400]) @@
       ("GPS GPSTimeStamp" :> <<Ratio(1, 1)>>)),
      (("Image DateTime" :> [ok |-> TRUE, epoch |-> 90000]) @@
       ("Image Tag 0x9010" :> <<"-", "0", "5", ":", "3", "0">>)),
      (("EXIF DateTimeOriginal" :> [ok |-> TRUE, epoch |-> 90000]) @@
       ("EXIF SubSecTimeOriginal" :> <<"2", "5">>)),
      (("Image Orientation" :> <<IntValue(9)>>)),
      (("Image Orientation" :> <<StrValue(<<"6">>)>>)) }

OtherXmps ==
    { <<>>,
      << (("@drone-dji:Latitude" :> <<"+", "1", "0", ".", "5">>) @@
          ("@drone-dji:Longitude" :> <<"-", "2", "0", ".", "2", "5">>) @@
          ("@Camera:Yaw" :> <<"9", "0">>) @@
          ("@Camera:Pitch" :> <<"0">>) @@
          ("@Camera:Roll" :> <<"0">>)) >>,
      << (("@drone-dji:Latitude" :> <<"+", "1", "0", ".", "5">>) @@
          ("@drone-dji:Longitude" :> <<"-", "2", "0", ".", "2", "5">>) @@
          ("@Camera:Yaw" :> <<"a", "b", "c">>) @@
          ("@Camera:Pitch" :> <<"0">>) @@
          ("@Camera:Roll" :> <<"0">>) @@
          ("@drone-dji:GimbalYawDegree" :> <<"9", "0">>) @@
          ("@drone-dji:GimbalPitchDegree" :> <<"0">>) @@
          ("@drone-dji:GimbalRollDegree" :> <<"0">>)) >>,
      << (("@drone-dji:Latitude" :> <<"+", "1", "0", ".", "5">>) @@
          ("@drone-dji:Longitude" :> <<"-", "2", "0", ".", "2", "5">>) @@
          ("@drone-dji:GimbalYawDegree" :> <<"9", "0">>) @@
          ("@drone-dji:GimbalPitchDegree" :> <<"0">>) @@
          ("@drone-dji:GimbalRollDegree" :> <<"0">>)) >>,
      << (("@drone-dji:GimbalYawDegree" :> <<"9", "0">>)) >>,
      << (("@Camera:Yaw" :> <<"9", "0">>) @@
          ("@Camera:Pitch" :> <<"0">>) @@
          ("@Camera:Roll" :> <<"0">>)) >>,
      << (GPanoProjectionType :> equirectangular) >> }

\* The images: every geolocation case, and the other cases with either flag.
Images ==
    {Image(tags, xmp, TRUE) : tags \in GeoTags, xmp \in GeoXmps}
    \cup {Image(tags, xmp, flag) : tags \in OtherTags, xmp \in OtherXmps, flag \in BOOLEAN}

InitExif ==
    /\ raw_calibrations = camera_calibration_loaded
    /\ ret = <<>>
    /\ resolved = None
    /\ op = "extract_exif"
    /\ args \in {<<image>> : image \in Images}

ExtractExif ==
    /\ op = "extract_exif"
    /\ Pending
    /\ ret' = Append(ret, extract_exif(NextArg))
    /\ UNCHANGED <<raw_calibrations, op, args, resolved>>

NextExif == ExtractExif

SpecExif == InitExif /\ [][NextExif]_vars

(***************************************************************************)
(* Properties of the metadata extraction.                                  *)
(***************************************************************************)
Extracted == Called("extract_exif") /\ Returned(ret[1])

\* C8: extract_exif never raises: for every combination of present, absent
\* and malformed tags and XMP fields it returns a record.
C8_ExtractionNeverRaises == Called("extract_exif") => Returned(ret[1])

\* C9 (as stated): if latitude or longitude is unresolved, the gps field of
\* the record is empty: it carries no altitude and no dop either.
C9_GpsEmptyWithoutLatLon ==
    Extracted =>
        ( ~("latitude" \in DOMAIN ret[1].val.gps /\ "longitude" \in DOMAIN ret[1].val.gps)
          => DOMAIN ret[1].val.gps = {} )

\* C9 (amended): the gps field carries latitude and longitude together, and
\* exactly when both were resolved; it carries the altitude exactly when the
\* altitude was resolved and the dop exactly when the dop was resolved,
\* whether or not latitude and longitude were.
C9_GpsFieldsIndependent ==
    Extracted =>
        LET gps     == ret[1].val.gps
            lon_lat == extract_lon_lat(args[1]).val
        IN  /\ "latitude" \in DOMAIN gps <=> "longitude" \in DOMAIN gps
            /\ "latitude" \in DOMAIN gps <=> (lon_lat[1] # None /\ lon_lat[2] # None)
            /\ "altitude" \in DOMAIN gps <=> extract_altitude(args[1]).val # None
            /\ "dop" \in DOMAIN gps <=> extract_dop(args[1]).val # None

\* C9 witness: a record whose gps has an altitude and a dop but no latitude.
C9_Witness ==
    /\ Extracted
    /\ DOMAIN ret[1].val.gps = {"altitude", "dop"}
    /\ "GPS GPSLatitude" \notin DOMAIN args[1].tags

\* C10: the altitude in the gps record is at most 1e4, for every raw altitude
\* from either source.
C10_AltitudeCeiling ==
    Extracted /\ "altitude" \in DOMAIN ret[1].val.gps =>
        ret[1].val.gps.altitude.num <= AltitudeCeiling * ret[1].val.gps.altitude.den

\* C10 witness: a GPS altitude tag of 20000 m, not negated, reported as 1e4.
C10_Witness ==
    /\ Extracted
    /\ "GPS GPSAltitude" \in DOMAIN args[1].tags
    /\ args[1].tags["GPS GPSAltitude"] = <<Ratio(2 * AltitudeCeiling, 1)>>
    /\ "GPS GPSAltitudeRef" \notin DOMAIN args[1].tags
    /\ ~has_dji_altitude(args[1])
    /\ ret[1].val.gps.altitude = Float(AltitudeCeiling)

\* C10 witness for the other source: a drone altitude of 20000.5 m,
\* reported as 1e4.
C10_WitnessDrone ==
    /\ Extracted
    /\ has_dji_altitude(args[1])
    /\ ret[1].val.gps.altitude = Float(AltitudeCeiling)

\* The value of the GPS altitude tag before the reference is applied: None
\* when the tag is absent, is a zero-denominator rational or is no number.
GpsAltitudeValue(image) ==
    IF "GPS GPSAltitude" \notin DOMAIN image.tags THEN None
    ELSE IF image.tags["GPS GPSAltitude"][1].type = "Ratio"
    THEN eval_frac(image.tags["GPS GPSAltitude"][1])
    ELSE IF image.tags["GPS GPSAltitude"][1].type = "int"
    THEN Some(Float(image.tags["GPS GPSAltitude"][1].num))
    ELSE None

BelowSeaLevel(image) ==
    /\ "GPS GPSAltitudeRef" \in DOMAIN image.tags
    /\ image.tags["GPS GPSAltitudeRef"][1] = IntValue(1)

Clamped(x) == IF RatLess(maximum_altitude, x) THEN maximum_altitude ELSE x

\* C11 (as stated): whenever the GPSAltitudeRef flag equals 1 the reported
\* altitude is the negation of the source value, the source being the drone
\* absolute altitude when present and the GPS altitude tag otherwise.
C11_ReferenceNegatesEverySource ==
    Extracted /\ BelowSeaLevel(args[1]) /\ "altitude" \in DOMAIN ret[1].val.gps =>
        ret[1].val.gps.altitude =
            Clamped(RatNeg(IF has_dji_altitude(args[1])
                           THEN Get(py_float(args[1].xmp[1]["@drone-dji:AbsoluteAltitude"]))
                           ELSE Get(GpsAltitudeValue(args[1]))))

\* C11 (amended): the drone absolute altitude, when present, is reported as
\* it is, whatever the GPSAltitudeRef flag; otherwise the GPS altitude tag is
\* reported, negated exactly when the flag equals 1; with neither source
\* resolved the record has no altitude.  (The report is capped at 1e4.)
C11_AltitudeSignRule ==
    Extracted =>
        IF has_dji_altitude(args[1])
        THEN /\ "altitude" \in DOMAIN ret[1].val.gps
             /\ ret[1].val.gps.altitude =
                    Clamped(Get(py_float(args[1].xmp[1]["@drone-dji:AbsoluteAltitude"])))
        ELSE IF ~IsNone(GpsAltitudeValue(args[1]))
        THEN /\ "altitude" \in DOMAIN ret[1].val.gps
             /\ ret[1].val.gps.altitude =
                    Clamped(IF BelowSeaLevel(args[1])
                            THEN RatNeg(Get(GpsAltitudeValue(args[1])))
                            ELSE Get(GpsAltitudeValue(args[1])))
        ELSE "altitude" \notin DOMAIN ret[1].val.gps

\* C11 witness: GPS altitude 100/1 with reference 1 and no drone altitude is
\* reported as -100.
C11_Witness ==
    /\ Extracted
    /\ ~has_dji_altitude(args[1])
    /\ GpsAltitudeValue(args[1]) = Some(Float(100))
    /\ BelowSeaLevel(args[1])
    /\ ret[1].val.gps.altitude = Float(-100)

\* C12: the orientation of the record is an EXIF orientation code in 1..8:
\* the Image Orientation tag value when the tag is present and non-zero, and
\* 1 otherwise.
C12_OrientationCode ==
    Extracted =>
        /\ ret[1].val.orientation \in 1..8
        /\ ret[1].val.orientation =
               IF /\ "Image Orientation" \in DOMAIN args[1].tags
                  /\ args[1].tags["Image Orientation"][1].type = "int"
                  /\ args[1].tags["Image Orientation"][1].num # 0
               THEN args[1].tags["Image Orientation"][1].num
               ELSE 1

(***************************************************************************)
(* Properties of the capture time.                                         *)
(***************************************************************************)
\* The GPS date and time stamp gave no time: the tags are absent or the
\* failure of their parse was caught.
GpsTimeUnresolved(image) ==
    \/ "GPS GPSDate" \notin DOMAIN image.tags
    \/ "GPS GPSTimeStamp" \notin DOMAIN image.tags
    \/ gps_capture_time(image) = Return(None)

SubSecOf(image, i) ==
    IF time_strings[i][2] \in DOMAIN image.tags
    THEN image.tags[time_strings[i][2]] ELSE <<"0">>

\* The datetime tag of triple i is present and parses with its sub-seconds.
TripleParses(image, i) ==
    /\ time_strings[i][1] \in DOMAIN image.tags
    /\ image.tags[time_strings[i][1]].ok
    /\ subsec_ok(SubSecOf(image, i))

FirstParsing(image, i) ==
    TripleParses(image, i) /\ \A j \in 1..(i - 1) : ~TripleParses(image, j)

\* The local time the datetime and sub-second tags of triple i denote.
LocalTime(image, i) ==
    RatAdd(Float(image.tags[time_strings[i][1]].epoch),
           Rat(digits_value(SubSecOf(image, i)), power_of_ten(Len(SubSecOf(image, i)))))

\* The text has the form sHH:MM.
IsUtcOffset(text) ==
    /\ Len(text) = 6
    /\ text[1] \in {"+", "-"}
    /\ text[4] = ":"
    /\ \A i \in {2, 3, 5, 6} : IsDigit(text[i])

\* s * (HH hours + MM minutes), in seconds.
UtcOffsetSeconds(text) ==
    (IF text[1] = "-" THEN -1 ELSE 1)
    * (3600 * digits_value(SubSeq(text, 2, 3)) + 60 * digits_value(SubSeq(text, 5, 6)))

\* C13: when the capture time comes from a datetime tag whose UTC-offset tag
\* holds sHH:MM, it is the local time minus s*(HH hours + MM minutes); with
\* no offset tag it is the local time.
C13_OffsetGivesUtc ==
    Extracted /\ GpsTimeUnresolved(args[1]) =>
        \A i \in 1..3 :
            FirstParsing(args[1], i) =>
                IF time_strings[i][3] \notin DOMAIN args[1].tags
                THEN ret[1].val.capture_time = LocalTime(args[1], i)
                ELSE IsUtcOffset(args[1].tags[time_strings[i][3]]) =>
                        ret[1].val.capture_time =
                            RatAdd(LocalTime(args[1], i),
                                   Float(-UtcOffsetSeconds(args[1].tags[time_strings[i][3]])))

\* The GPS date and time stamp parse: both tags are present, the date is a
\* date, and hour, minute and second are numbers of a time of day.
GpsTimeParses(image) ==
    /\ "GPS GPSDate" \in DOMAIN image.tags
    /\ "GPS GPSTimeStamp" \in DOMAIN image.tags
    /\ image.tags["GPS GPSDate"].ok
    /\ Len(image.tags["GPS GPSTimeStamp"]) >= 3
    /\ \A i \in 0..2 :
           /\ Returned(get_tag_as_float(image.tags, "GPS GPSTimeStamp", i))
           /\ ~IsNone(get_tag_as_float(image.tags, "GPS GPSTimeStamp", i).val)
    /\ py_trunc(Get(get_tag_as_float(image.tags, "GPS GPSTimeStamp", 0).val)) \in 0..23
    /\ py_trunc(Get(get_tag_as_float(image.tags, "GPS GPSTimeStamp", 1).val)) \in 0..59
    /\ ~RatLess(Get(get_tag_as_float(image.tags, "GPS GPSTimeStamp", 2).val), Float(0))
    /\ RatLess(Get(get_tag_as_float(image.tags, "GPS GPSTimeStamp", 2).val), Float(60))

\* The capture time of the first source that parses, 0.0 when none does.
FirstSourceTime(image) ==
    IF GpsTimeParses(image) THEN Get(gps_capture_time(image).val)
    ELSE IF \E i \in 1..3 : TripleParses(image, i)
    THEN Get(tag_capture_time(image, time_strings[CHOOSE i \in 1..3 : FirstParsing(image, i)]))
    ELSE Float(0)

\* The extractors that run before the capture time returned.
ReachedCaptureTime ==
    /\ Called("extract_exif")
    /\ Returned(extract_focal(args[1]))
    /\ Returned(extract_geo(args[1]))

\* C14: the capture time is that of the first source that parses, in the
\* order GPS date and time stamp, EXIF DateTimeOriginal, EXIF
\* DateTimeDigitized, Image DateTime; a source that is absent or does not
\* parse never prevents the later ones from being tried, and the result is
\* 0.0 when none parses.
C14_FirstParsingSource ==
    ReachedCaptureTime =>
        /\ Returned(ret[1])
        /\ ret[1].val.capture_time = FirstSourceTime(args[1])

(***************************************************************************)
(* Properties of the orientation angles.                                   *)
(***************************************************************************)
\* The tags of the selected yaw/pitch/roll source: the camera tags when all
\* three are present, else the gimbal tags when all three are present.
SelectedTriple(description) ==
    IF \A i \in 1..3 : CameraYPR[i] \in DOMAIN description THEN Some(CameraYPR)
    ELSE IF \A i \in 1..3 : GimbalYPR[i] \in DOMAIN description THEN Some(GimbalYPR)
    ELSE None

\* An XMP blob exists, the geolocation has latitude and longitude, and the
\* three values of the selected source are numbers.
OpkAvailable(image, gps) ==
    /\ Len(image.xmp) > 0
    /\ "latitude" \in DOMAIN gps
    /\ "longitude" \in DOMAIN gps
    /\ ~IsNone(SelectedTriple(image.xmp[1]))
    /\ \A i \in 1..3 :
           ~IsNone(py_float(image.xmp[1][Get(SelectedTriple(image.xmp[1]))[i]]))

HasPair(image, w, h) == w \in DOMAIN image.tags /\ h \in DOMAIN image.tags

PairSize(image, w, h) == <<image.tags[w][1], image.tags[h][1]>>

LoaderSize(image) == <<image.loader_size[2], image.loader_size[1]>>

ExifPair(image) == HasPair(image, "EXIF ExifImageWidth", "EXIF ExifImageLength")

ImagePair(image) == HasPair(image, "Image ImageWidth", "Image ImageLength")

\* C19 as stated: the size is that of the EXIF pair when the use-EXIF-size
\* flag is set and both tags exist, else that of the Image pair when both
\* tags exist, else that of the loader.
C19_ImagePairWheneverPresent ==
    Extracted =>
        <<ret[1].val.width, ret[1].val.height>> =
            IF args[1].use_exif_size /\ ExifPair(args[1])
            THEN PairSize(args[1], "EXIF ExifImageWidth", "EXIF ExifImageLength")
            ELSE IF ImagePair(args[1])
            THEN PairSize(args[1], "Image ImageWidth", "Image ImageLength")
            ELSE LoaderSize(args[1])

\* C19: the size is that of the EXIF pair when the use-EXIF-size flag is set
\* and both tags exist, else that of the Image pair when the flag is set and
\* both tags exist, else that of the loader; with the flag unset the loader
\* supplies the size whatever tags exist.
C19_SizeSourceOrder ==
    Extracted =>
        <<ret[1].val.width, ret[1].val.height>> =
            IF args[1].use_exif_size /\ ExifPair(args[1])
            THEN PairSize(args[1], "EXIF ExifImageWidth", "EXIF ExifImageLength")
            ELSE IF args[1].use_exif_size /\ ImagePair(args[1])
            THEN PairSize(args[1], "Image ImageWidth", "Image ImageLength")
            ELSE LoaderSize(args[1])

\* C19 witness: the flag is unset, the Image pair exists and differs from
\* the loader's size, and the extracted size is the loader's.
C19_Witness ==
    /\ Extracted
    /\ ~args[1].use_exif_size
    /\ ImagePair(args[1])
    /\ ~ExifPair(args[1])
    /\ PairSize(args[1], "Image ImageWidth", "Image ImageLength") # LoaderSize(args[1])
    /\ <<ret[1].val.width, ret[1].val.height>> = LoaderSize(args[1])

\* C19, second case: the flag is set, only one tag of the EXIF pair exists,
\* and the size is that of the Image pair.
C19_WitnessImagePair ==
    /\ Extracted
    /\ args[1].use_exif_size
    /\ "EXIF ExifImageWidth" \in DOMAIN args[1].tags
    /\ ~ExifPair(args[1])
    /\ <<ret[1].val.width, ret[1].val.height>> =
           PairSize(args[1], "Image ImageWidth", "Image ImageLength")

====
